---- MODULE Spec2Model ----
(***************************************************************************)
(* A model of github_activity.py: the incremental mirror of commits, pull  *)
(* requests, issues and reviews of a list of repositories into a store.    *)
(*                                                                         *)
(* Time is counted in days.  The store's tables are sets of rows, each     *)
(* with a store-assigned id.  The remote service is a record of listings;  *)
(* every configured repository is served the same listings (the            *)
(* repositories are mirrors of one another).                               *)
(***************************************************************************)
EXTENDS Integers, Sequences, FiniteSets, TLC

\* ---------------------------------------------------------------- bounds
MaxList == 2
MaxFaults == 1
MaxTicks == 1
MaxRuns == 2
MaxHalfPages == 4
MaxQuotaWaits == 2
MaxLate == 1
MaxBranches == 7
MaxPulls == 11

\* ------------------------------------------------------ program constants
RetentionDays == 30
PerPage == 100
InsertBatchSize == 20
BatchSize == 5

NoDate == 0
Now0 == 3 * RetentionDays + 10
DateOld == Now0 - 2 * RetentionDays
DateEdge == Now0 - RetentionDays
DateNew == Now0 - 1

Kinds == {"commits", "pull_requests", "issues", "reviews"}

VARIABLES
    now,            \* the wall clock, in days
    repositories,   \* store table repositories
    commits,        \* store table commits
    pull_requests,  \* store table pull_requests
    issues,         \* store table issues
    reviews,        \* store table reviews
    remote,         \* what the remote service lists
    repos,          \* main: the configured repository list
    m_pc,           \* main: position
    run,            \* how many times main has been started
    repoIdx,        \* main: index of the repository being processed
    phase,          \* store_repository_data: position
    repo_id,        \* store_repository_data: repo_id
    latest,         \* store_repository_data: latest_*_date
    prStateIdx,     \* store_repository_data: index into pr_states
    rv_pc,          \* store_repository_data: position inside the review phase
    all_recent_prs, \* store_repository_data: all_recent_prs
    batch_i,        \* store_repository_data: i of the review batch loop
    all_review_data,\* store_repository_data: all_review_data
    faults,         \* failures the environment may still inject
    ticks,          \* clock ticks still allowed
    runsLeft,       \* starts of main still allowed
    syncStart,      \* history: the clock when the current sync started
    calls,          \* history: the repositories store_repository_data was called for, this run
    since,          \* history: the window start each kind's fetch used, and the clock then
    lastInsert,     \* history: what the last phase step handed to the store
    preClean,       \* history: the tables as the pre-pass cleanup found them
    latestAt,       \* history: the clock when the latest dates were read
    outcomes,       \* history: how each call of store_repository_data ended, this run
    countsAfter,    \* history: row counts per repository and table at the end of each run
    f_pc,           \* fetch_paginated_data: position
    items,          \* fetch_paginated_data: items
    page,           \* fetch_paginated_data: page
    retry_count,    \* fetch_paginated_data: retry_count
    retry_delay,    \* fetch_paginated_data: retry_delay, in seconds
    response,       \* fetch_paginated_data: the answer to the last request
    time,           \* the wall clock of fetch_paginated_data, in seconds
    collection,     \* how many records the requested collection holds
    quotaWaits,     \* quota-exhausted answers the service may still give
    slept,          \* history: how long the last sleep lasted
    requested,      \* history: the page indices requested so far, in order
    failures,       \* history: how many answers were failures or quota-exhausted
    branches,       \* store_repository_data: the branch listing
    executor,       \* the ThreadPoolExecutor of the with block, its tasks
    throttles,      \* history: handle_rate_limit calls of this store_repository_data
    gaveUp          \* history: fetches of this store_repository_data that gave up

vars == <<now, repositories, commits, pull_requests, issues, reviews, remote,
          repos, m_pc, run, repoIdx, phase, repo_id, latest, prStateIdx, rv_pc,
          all_recent_prs, batch_i, all_review_data, faults, ticks, runsLeft,
          syncStart, calls, since, lastInsert, preClean, latestAt, outcomes,
          countsAfter, f_pc, items, page, retry_count, retry_delay, response, time,
          collection, quotaWaits, slept, requested, failures, branches, executor,
          throttles, gaveUp>>

fetchVars == <<f_pc, items, page, retry_count, retry_delay, response, time, collection,
               quotaWaits, slept, requested, failures>>

\* --------------------------------------------------------------- helpers
Min(a, b) == IF a <= b THEN a ELSE b
Max(a, b) == IF a >= b THEN a ELSE b

SetMax(S) == CHOOSE x \in S : \A y \in S : y <= x

RECURSIVE Flatten(_)
Flatten(ss) == IF ss = <<>> THEN <<>> ELSE Head(ss) \o Flatten(Tail(ss))

SeqsUpTo(S, n) == UNION {[1..k -> S] : k \in 0..n}

Range(s) == {s[i] : i \in 1..Len(s)}

\* The members of s at the indices in idx, in order.
RECURSIVE Pick(_, _, _)
Pick(s, idx, i) ==
    IF i > Len(s) THEN <<>>
    ELSE (IF i \in idx THEN <<s[i]>> ELSE <<>>) \o Pick(s, idx, i + 1)

\* str(x): the text of a number, and a text itself.  A number is positive; its
\* text is written as its negative, so that no text is a number and two
\* numbers have different texts.
str(x) == IF x > 0 THEN 0 - x ELSE x

\* ------------------------------------------------------------ format_date
format_date(date_str, clock) == IF date_str = NoDate THEN clock ELSE date_str

\* ------------------------------------------------------------- the store
NextId(table) == IF table = {} THEN 1 ELSE SetMax({r.id : r \in table}) + 1

InsertRow(table, row) == table \cup {[row EXCEPT !.id = NextId(table)]}

\* The rows of a sequence inserted one after another: each gets the next id.
InsertRows(table, rows) ==
    LET first == NextId(table)
    IN table \cup {[rows[i] EXCEPT !.id = first + i - 1] : i \in 1..Len(rows)}

OfRepo(table, rid) == {r \in table : r.repository_id = rid}

CommitKey(c) == <<c.repository_id, c.message, c.author, c.committed_at, c.branch>>
PRKey(p) == <<p.repository_id, p.number>>
IssueKey(i) == <<i.repository_id, i.number>>
ReviewKey(r) == <<r.repository_id, r.review_id, r.author, r.pr_number>>

\* -------------------------------------------------------- delete_old_data
\* One delete of delete_old_data: the rows of the repository whose date field
\* is before the cutoff go.
DeleteOlder(table, rid, field, cutoff) ==
    {r \in table : ~(r.repository_id = rid /\ r[field] < cutoff)}

\* --------------------------------------------------- clean_duplicate_*
KeyOf(kind, r) ==
    CASE kind = "commits" -> CommitKey(r)
      [] kind = "pull_requests" -> PRKey(r)
      [] kind = "issues" -> IssueKey(r)
      [] kind = "reviews" -> ReviewKey(r)

\* The field each cleanup sorts its groups by.
SortField(kind) ==
    CASE kind = "commits" -> "created_at"
      [] kind = "pull_requests" -> "created_at_internal"
      [] kind = "reviews" -> "created_at"

\* The sort without its reverse=True: the oldest row comes first.
SortedAscending(group, field) ==
    {s \in [1..Cardinality(group) -> group] :
        /\ \A i, j \in DOMAIN s : i # j => s[i] # s[j]
        /\ \A i, j \in DOMAIN s : i < j => s[i][field] <= s[j][field]}

\* group.sort(key=..., reverse=True): the orders the sort can leave the group
\* in.  The sort is stable and the select states no order, so rows with equal
\* keys may come in either order.
SortedDesc(group, field) ==
    {s \in [1..Cardinality(group) -> group] :
        /\ \A i, j \in DOMAIN s : i # j => s[i] # s[j]
        /\ \A i, j \in DOMAIN s : i < j => s[i][field] >= s[j][field]}

\* The rows one group loses: all but the first of the sorted group.
ToDelete(group, field) ==
    IF Cardinality(group) > 1
    THEN {Range(Tail(s)) : s \in SortedDesc(group, field)}
    ELSE {{}}

\* The tables a cleanup can leave, the groups taken one after another.
RECURSIVE CleanGroups(_, _, _, _)
CleanGroups(table, rid, kind, keys) ==
    IF keys = {} THEN {table}
    ELSE LET k == CHOOSE x \in keys : TRUE
             group == {r \in OfRepo(table, rid) : KeyOf(kind, r) = k}
         IN UNION {CleanGroups(table \ del, rid, kind, keys \ {k}) :
                       del \in ToDelete(group, SortField(kind))}

clean_duplicates(table, rid, kind) ==
    CleanGroups(table, rid, kind, {KeyOf(kind, r) : r \in OfRepo(table, rid)})

\* --------------------------------------------------------- get_latest_date
get_latest_date(table, rid, date_field, clock) ==
    LET dates == {r[date_field] : r \in OfRepo(table, rid)}
    IN IF dates # {} THEN SetMax(dates) ELSE clock - RetentionDays

\* The later of the two dates instead of the earlier.
since_date_later(latest_date, clock) == Max(latest_date, clock - RetentionDays)

\* The window start a fetch uses: since_date.
since_date(latest_date, clock) == Min(latest_date, clock - RetentionDays)

\* ----------------------------------------------------- fetch_paginated_data
\* What fetch_paginated_data returns for a listing when it gives up on page
\* failPage (0: it never gives up): the pages before that one.
Fetch(listing, failPage) ==
    IF failPage = 0 THEN listing
    ELSE SubSeq(listing, 1, Min(Len(listing), (failPage - 1) * PerPage))

\* ------------------------------------------------- fetch_commits_for_branch
NormCommit(c, branch, rid, clock) ==
    [id |-> 0, repository_id |-> rid, message |-> c.message, author |-> c.author,
     committed_at |-> format_date(c.date, clock), branch |-> branch,
     created_at |-> clock]

RECURSIVE MapCommits(_, _, _, _, _)
MapCommits(cs, branch, rid, clock, sinceD) ==
    IF cs = <<>> THEN <<>>
    ELSE (IF format_date(Head(cs).date, clock) >= sinceD
          THEN <<NormCommit(Head(cs), branch, rid, clock)>> ELSE <<>>)
         \o MapCommits(Tail(cs), branch, rid, clock, sinceD)

fetch_commits_for_branch(branch, latest_commit_date, rid, clock, fetched) ==
    MapCommits(fetched, branch, rid, clock, since_date(latest_commit_date, clock))

\* The insert filtering of the commit phase: a key is accepted once.
RECURSIVE NewCommits(_, _)
NewCommits(data, existing_keys) ==
    IF data = <<>> THEN <<>>
    ELSE IF CommitKey(Head(data)) \notin existing_keys
         THEN <<Head(data)>>
              \o NewCommits(Tail(data), existing_keys \cup {CommitKey(Head(data))})
         ELSE NewCommits(Tail(data), existing_keys)

\* ------------------------------------------------------ pull request phase
NormPR(p, rid, clock) ==
    [id |-> 0, repository_id |-> rid, created_at |-> format_date(p.created_at, clock),
     state |-> p.state, number |-> p.number, created_at_internal |-> clock]

RECURSIVE MapPRs(_, _, _, _)
MapPRs(ps, rid, clock, sinceD) ==
    IF ps = <<>> THEN <<>>
    ELSE (IF format_date(Head(ps).created_at, clock) >= sinceD
          THEN <<NormPR(Head(ps), rid, clock)>> ELSE <<>>)
         \o MapPRs(Tail(ps), rid, clock, sinceD)

\* The insert filtering left out.
Unfiltered(data, table, rid) == data

\* new_pr_data / new_issue_data: the rows whose number the store does not hold.
NewByNumber(data, table, rid) ==
    LET existing_numbers == {r.number : r \in OfRepo(table, rid)}
    IN SelectSeq(data, LAMBDA d : d.number \notin existing_numbers)

\* ------------------------------------------------------------ issue phase
NormIssue(i, rid, clock) ==
    [id |-> 0, repository_id |-> rid, created_at |-> format_date(i.created_at, clock),
     number |-> i.number]

RECURSIVE MapIssues(_, _, _)
MapIssues(is, rid, clock) ==
    IF is = <<>> THEN <<>>
    ELSE (IF ~Head(is).pull_request
          THEN <<NormIssue(Head(is), rid, clock)>> ELSE <<>>)
         \o MapIssues(Tail(is), rid, clock)

\* The remote's answer to the issue listing with its since parameter: the
\* issues updated at or after it.
IssuesSince(listing, sinceD) == SelectSeq(listing, LAMBDA i : i.updated_at >= sinceD)

\* ---------------------------------------------------- fetch_reviews_for_pr
NormReview(r, pr_number, rid, clock) ==
    [id |-> 0, repository_id |-> rid, author |-> r.author,
     created_at |-> format_date(r.submitted_at, clock), review_id |-> str(r.id),
     pr_number |-> pr_number]

RECURSIVE MapReviews(_, _, _, _, _)
MapReviews(rs, pr_number, rid, clock, existing_review_ids) ==
    IF rs = <<>> THEN <<>>
    ELSE (IF str(Head(rs).id) \notin existing_review_ids
          THEN <<NormReview(Head(rs), pr_number, rid, clock)>> ELSE <<>>)
         \o MapReviews(Tail(rs), pr_number, rid, clock, existing_review_ids)

fetch_reviews_for_pr(pr, rid, clock, fetched, table) ==
    LET existing_review_ids ==
            {str(r.review_id) : r \in {x \in OfRepo(table, rid) : x.pr_number = pr.number}}
    IN MapReviews(fetched, pr.number, rid, clock, existing_review_ids)

\* ------------------------------------------------ insert, with its fallback
\* The insert without its except: a failed bulk insert stores nothing.
InsertNoFallback(table, rows, bulkFails, ok) ==
    IF ~bulkFails THEN InsertRows(table, rows) ELSE table

\* supabase.table(t).insert(rows) in its try, and the one-by-one fallback of
\* its except: the bulk insert fails when bulkFails, and then the rows at the
\* indices in ok are the ones whose own insert succeeds.
InsertWithFallback(table, rows, bulkFails, ok) ==
    IF ~bulkFails THEN InsertRows(table, rows)
    ELSE InsertRows(table, Pick(rows, ok, 1))

\* The outcomes of the one-by-one inserts that follow a failed bulk insert of
\* rows: the sets of row indices whose own insert succeeds.  Of a long batch
\* the first rows and the rows around the sub-batch boundary may succeed.
OkSets(rows, fails) ==
    IF fails
    THEN SUBSET ((1..Len(rows)) \cap
                 ((1..(2 * MaxList)) \cup {InsertBatchSize, InsertBatchSize + 1}))
    ELSE {{}}

\* The review insert: sub-batches of InsertBatchSize rows from row j on, each
\* with its own try.  failing: the sub-batches whose bulk insert fails; ok:
\* the row indices (in all_review_data) whose own insert succeeds.
RECURSIVE InsertReviewBatches(_, _, _, _, _)
InsertReviewBatches(table, data, j, failing, ok) ==
    IF j > Len(data) THEN table
    ELSE LET last == Min(j + InsertBatchSize - 1, Len(data))
             batch == SubSeq(data, j, last)
             batch_num == ((j - 1) \div InsertBatchSize) + 1
             okHere == {i - j + 1 : i \in {x \in ok : x >= j /\ x <= last}}
         IN InsertReviewBatches(
                InsertWithFallback(table, batch, batch_num \in failing, okHere),
                data, j + InsertBatchSize, failing, ok)

\* ------------------------------------------------------------ the inputs
RawCommits == [message : {"m1"}, author : {"alice"}, date : {DateOld, DateNew, NoDate}]
RawPRs(st) == [number : {1}, created_at : {DateOld, DateNew}, updated_at : {DateNew},
               state : {st}]
StalePR == [number |-> 1, created_at |-> DateOld, updated_at |-> DateOld, state |-> "closed"]
FreshPR(st) == [number |-> 1, created_at |-> DateNew, updated_at |-> DateNew, state |-> st]
RawIssues ==
    {[number |-> 1, created_at |-> DateOld, updated_at |-> DateOld, pull_request |-> FALSE],
     [number |-> 1, created_at |-> DateOld, updated_at |-> DateNew, pull_request |-> FALSE],
     [number |-> 1, created_at |-> DateNew, updated_at |-> DateNew, pull_request |-> FALSE],
     [number |-> 1, created_at |-> DateNew, updated_at |-> DateNew, pull_request |-> TRUE]}
RawReviews == [id : {1}, author : {"alice"}, submitted_at : {DateOld, DateNew}]
\* One review more than an insert sub-batch takes.
ManyReviews ==
    [i \in 1..(InsertBatchSize + 1) |->
        [id |-> i, author |-> "alice", submitted_at |-> DateNew]]

NoRemote ==
    [branches |-> <<"main">>, commits |-> <<>>, pulls_open |-> <<>>,
     pulls_closed |-> <<>>, issues |-> <<>>, reviews |-> <<>>]

\* The remote holds activity of one kind (reviews come with the pull requests
\* they belong to).
RemoteOf(kind) ==
    CASE kind = "commits" ->
           {[NoRemote EXCEPT !.branches = b, !.commits = c] :
               b \in {<<"main">>, <<"main", "dev">>}, c \in SeqsUpTo(RawCommits, MaxList)}
      [] kind = "pull_requests" ->
           {[NoRemote EXCEPT !.pulls_open = o, !.pulls_closed = c] :
               o \in SeqsUpTo(RawPRs("open"), MaxList),
               c \in SeqsUpTo(RawPRs("closed"), MaxList)}
      [] kind = "issues" ->
           {[NoRemote EXCEPT !.issues = i] : i \in SeqsUpTo(RawIssues, MaxList)}
      [] kind = "reviews" ->
           {[NoRemote EXCEPT !.pulls_open = o, !.pulls_closed = c, !.reviews = r] :
               o \in {<<>>, <<FreshPR("open")>>},
               c \in {<<>>, <<FreshPR("closed")>>, <<StalePR>>},
               r \in SeqsUpTo(RawReviews, MaxList)}
           \cup {[NoRemote EXCEPT !.pulls_open = <<FreshPR("open")>>,
                                  !.reviews = ManyReviews]}

\* What the store may hold of repository 1 when the process starts: two rows
\* of one logical identity, dated at the edge of the window, one stale row and
\* one recent row of an identity of its own.
SeedRows(kind) ==
    CASE kind = "commits" ->
           {[id |-> 1, repository_id |-> 1, message |-> "m1", author |-> "alice",
             committed_at |-> DateEdge, branch |-> "main", created_at |-> Now0 - 3],
            [id |-> 2, repository_id |-> 1, message |-> "m1", author |-> "alice",
             committed_at |-> DateEdge, branch |-> "main", created_at |-> Now0 - 2],
            [id |-> 3, repository_id |-> 1, message |-> "m1", author |-> "alice",
             committed_at |-> DateOld, branch |-> "main", created_at |-> Now0 - 3],
            [id |-> 4, repository_id |-> 1, message |-> "m2", author |-> "alice",
             committed_at |-> DateNew, branch |-> "main", created_at |-> Now0 - 1]}
      [] kind = "pull_requests" ->
           {[id |-> 1, repository_id |-> 1, created_at |-> DateEdge, state |-> "open",
             number |-> 1, created_at_internal |-> Now0 - 3],
            [id |-> 2, repository_id |-> 1, created_at |-> DateEdge, state |-> "open",
             number |-> 1, created_at_internal |-> Now0 - 2],
            [id |-> 3, repository_id |-> 1, created_at |-> DateOld, state |-> "closed",
             number |-> 2, created_at_internal |-> Now0 - 3],
            [id |-> 4, repository_id |-> 1, created_at |-> DateNew, state |-> "open",
             number |-> 3, created_at_internal |-> Now0 - 1]}
      [] kind = "issues" ->
           {[id |-> 1, repository_id |-> 1, created_at |-> DateEdge, number |-> 1],
            [id |-> 2, repository_id |-> 1, created_at |-> DateEdge, number |-> 1],
            [id |-> 3, repository_id |-> 1, created_at |-> DateOld, number |-> 2],
            [id |-> 4, repository_id |-> 1, created_at |-> DateNew, number |-> 3]}
      [] kind = "reviews" ->
           {[id |-> 1, repository_id |-> 1, author |-> "alice", created_at |-> DateEdge,
             review_id |-> str(1), pr_number |-> 1],
            [id |-> 2, repository_id |-> 1, author |-> "alice", created_at |-> DateEdge,
             review_id |-> str(1), pr_number |-> 1],
            [id |-> 3, repository_id |-> 1, author |-> "alice", created_at |-> DateOld,
             review_id |-> str(2), pr_number |-> 1],
            [id |-> 4, repository_id |-> 1, author |-> "alice", created_at |-> DateNew,
             review_id |-> str(3), pr_number |-> 1]}

Seeded(kind, focus, depths) ==
    IF kind = focus
    THEN {{r \in SeedRows(kind) : r.id <= n} : n \in depths}
    ELSE {{}}

\* fetch_paginated_data's parameters and the answers of the service.
max_retries == 5
InitialDelay == 5
Buffer == 5
LowQuota == 20
ThrottleBuffer == 5
max_workers == 5
NoHeader == 0 - 1
Time0 == 7
ResetAhead == 12
NoResponse == [page |-> 0, status |-> 0, remaining |-> NoHeader, reset |-> 0,
               raises |-> "no"]

\* No with block is open: no pool, no task.
NoExecutor == [open |-> FALSE, pending |-> 0, running |-> 0]

NoInsert == [step |-> "none", rows |-> <<>>, bulkFailed |-> {}, ok |-> {}, before |-> {}]
NoSince == [k \in Kinds |-> [value |-> NoDate, clock |-> NoDate]]
NoLatest == [k \in Kinds |-> NoDate]

\* main, store_repository_data and fetch_paginated_data before they start.
InitLocals(f, t, r, q) ==
    /\ m_pc = "start"
    /\ run = 0
    /\ repoIdx = 0
    /\ phase = "Idle"
    /\ repo_id = 0
    /\ latest = NoLatest
    /\ prStateIdx = 1
    /\ rv_pc = "list"
    /\ all_recent_prs = <<>>
    /\ batch_i = 1
    /\ all_review_data = <<>>
    /\ faults = f
    /\ ticks = t
    /\ runsLeft = r
    /\ syncStart = 0
    /\ calls = <<>>
    /\ since = NoSince
    /\ lastInsert = NoInsert
    /\ preClean = [k \in Kinds |-> {}]
    /\ latestAt = 0
    /\ outcomes = <<>>
    /\ countsAfter = <<>>
    /\ f_pc = "idle"
    /\ items = <<>>
    /\ page = 1
    /\ retry_count = 0
    /\ retry_delay = InitialDelay
    /\ response = NoResponse
    /\ time = Time0
    /\ collection = 0
    /\ quotaWaits = q
    /\ slept = 0
    /\ requested = <<>>
    /\ failures = 0
    /\ branches = <<>>
    /\ executor = NoExecutor
    /\ throttles = 0
    /\ gaveUp = 0

\* The state of the process at its start, the store's tables and the remote
\* apart.
InitRest(repoLists, f, t, r, q) ==
    /\ now = Now0
    /\ repositories = {[id |-> 1, name |-> "r1"]}
    /\ repos \in repoLists
    /\ InitLocals(f, t, r, q)

InitWith(repoLists, f, t, r, depths) ==
    /\ \E focus \in Kinds :
          /\ commits \in Seeded("commits", focus, depths)
          /\ pull_requests \in Seeded("pull_requests", focus, depths)
          /\ issues \in Seeded("issues", focus, depths)
          /\ reviews \in Seeded("reviews", focus, depths)
          /\ remote \in RemoteOf(focus)
    /\ InitRest(repoLists, f, t, r, 0)

Init == InitWith({<<"r1">>}, 0, MaxTicks, 1, 0..4)
InitTwice == InitWith({<<"r1">>}, 0, 0, MaxRuns, 0..4)
InitFaults == InitWith({<<"r1", "r2">>}, MaxFaults, 0, 1, 0..4)

\* ------------------------------------------------------------------ main
storeVars == <<repositories, commits, pull_requests, issues, reviews>>
localVars == <<repo_id, latest, prStateIdx, rv_pc, all_recent_prs, batch_i, all_review_data>>
mainVars == <<repos, m_pc, run, repoIdx, calls, outcomes, runsLeft, countsAfter>>
histVars == <<syncStart, since, lastInsert, preClean, latestAt>>
poolVars == <<branches, executor, throttles, gaveUp>>

Table(kind) ==
    CASE kind = "commits" -> commits
      [] kind = "pull_requests" -> pull_requests
      [] kind = "issues" -> issues
      [] kind = "reviews" -> reviews

Counts == [rid \in {r.id : r \in repositories} |->
              [k \in Kinds |-> Cardinality(OfRepo(Table(k), rid))]]

\* The clock moves on.
Tick ==
    /\ ticks > 0
    /\ m_pc = "loop"
    /\ now' = now + 1
    /\ ticks' = ticks - 1
    /\ UNCHANGED <<storeVars, remote, fetchVars, poolVars, mainVars, phase, localVars, faults, histVars>>

\* main, up to its loop: load_repositories.
main_start ==
    /\ m_pc = "start"
    /\ runsLeft > 0
    /\ m_pc' = "loop"
    /\ run' = run + 1
    /\ runsLeft' = runsLeft - 1
    /\ repoIdx' = 1
    /\ calls' = <<>>
    /\ outcomes' = <<>>
    /\ UNCHANGED <<now, storeVars, remote, fetchVars, poolVars, repos, countsAfter, phase, localVars,
                   faults, ticks, histVars>>

\* main's loop is through: main returns.  A later start of the process runs
\* main again.
main_return ==
    /\ m_pc = "loop"
    /\ phase = "Idle"
    /\ repoIdx > Len(repos)
    /\ m_pc' = "start"
    /\ countsAfter' = Append(countsAfter, Counts)
    /\ UNCHANGED <<now, storeVars, remote, fetchVars, poolVars, repos, run, repoIdx, calls, outcomes,
                   runsLeft, phase, localVars, faults, ticks, histVars>>

\* get_or_create_repository
get_or_create_repository(repo_name) ==
    IF \E r \in repositories : r.name = repo_name
    THEN repositories
    ELSE InsertRow(repositories, [id |-> 0, name |-> repo_name])

RepoId(table, repo_name) == (CHOOSE r \in table : r.name = repo_name).id

Cost(b) == IF b THEN 1 ELSE 0

\* The statement order with the pull request step left out of it.
next_phase_skipping(p) ==
    CASE p = "Pruning" -> "Deduping"
      [] p = "Deduping" -> "WindowComputation"
      [] p = "WindowComputation" -> "FetchingCommits"
      [] p = "FetchingCommits" -> "FetchingIssues"
      [] p = "FetchingPRs" -> "FetchingIssues"
      [] p = "FetchingIssues" -> "FetchingReviews"
      [] p = "FetchingReviews" -> "Done"

\* The statement order of store_repository_data's try block: the step that
\* follows step p when p raises nothing.
next_phase(p) ==
    CASE p = "Pruning" -> "Deduping"
      [] p = "Deduping" -> "WindowComputation"
      [] p = "WindowComputation" -> "FetchingCommits"
      [] p = "FetchingCommits" -> "FetchingPRs"
      [] p = "FetchingPRs" -> "FetchingIssues"
      [] p = "FetchingIssues" -> "FetchingReviews"
      [] p = "FetchingReviews" -> "Done"

\* main calls store_repository_data(repos[repoIdx]); it runs up to the
\* repository id.  raise: the store call raises.
Begin(raise) ==
    /\ m_pc = "loop"
    /\ phase = "Idle"
    /\ repoIdx <= Len(repos)
    /\ Cost(raise) <= faults
    /\ faults' = faults - Cost(raise)
    /\ calls' = Append(calls, repos[repoIdx])
    /\ syncStart' = now
    /\ since' = NoSince
    /\ lastInsert' = NoInsert
    /\ preClean' = [k \in Kinds |-> {}]
    /\ latestAt' = 0
    /\ latest' = NoLatest
    /\ prStateIdx' = 1
    /\ rv_pc' = "list"
    /\ all_recent_prs' = <<>>
    /\ batch_i' = 1
    /\ all_review_data' = <<>>
    /\ branches' = <<>>
    /\ executor' = NoExecutor
    /\ throttles' = 0
    /\ gaveUp' = 0
    /\ IF raise
       THEN /\ phase' = "Errored"
            /\ UNCHANGED <<repositories, repo_id>>
       ELSE /\ phase' = "Pruning"
            /\ repositories' = get_or_create_repository(repos[repoIdx])
            /\ repo_id' = RepoId(repositories', repos[repoIdx])
    /\ UNCHANGED <<now, commits, pull_requests, issues, reviews, remote, fetchVars, repos, m_pc,
                   run, repoIdx, outcomes, runsLeft, countsAfter, ticks>>

\* The handler raising again: the error leaves store_repository_data and ends
\* main.
except_reraise == "crashed"

\* Where main is after store_repository_data's except handler has run: the
\* handler returns, and the loop goes on.
except_handler == "loop"

\* A fetch that gave up raising like any failing statement.
enters_error_on_give_up(raise, gave_up) == raise \/ gave_up

\* What takes store_repository_data to its handler: an exception.  A fetch
\* that gave up has returned its list, it raises nothing.
enters_error(raise, gave_up) == raise

\* A handler that undoes the run: the repository's rows are taken out.
rolled_back(table, rid) == table \ OfRepo(table, rid)

\* What the except handler leaves of a table: it prints and returns, the
\* table is as the failing statement left it.
left_in_place(table, rid) == table

\* store_repository_data returns, from its last line or from its handler.
Return ==
    /\ m_pc = "loop"
    /\ phase \in {"Done", "Errored"}
    /\ phase' = "Idle"
    /\ m_pc' = IF phase = "Errored" THEN except_handler ELSE "loop"
    /\ repoIdx' = repoIdx + 1
    /\ outcomes' = Append(outcomes, phase)
    /\ lastInsert' = NoInsert
    /\ commits' = IF phase = "Errored" THEN left_in_place(commits, repo_id) ELSE commits
    /\ pull_requests' = IF phase = "Errored" THEN left_in_place(pull_requests, repo_id)
                        ELSE pull_requests
    /\ issues' = IF phase = "Errored" THEN left_in_place(issues, repo_id) ELSE issues
    /\ reviews' = IF phase = "Errored" THEN left_in_place(reviews, repo_id) ELSE reviews
    /\ UNCHANGED <<now, repositories, remote, fetchVars, poolVars, repos, run, calls, runsLeft,
                   countsAfter, localVars, faults, ticks, syncStart, since, preClean,
                   latestAt>>

\* ---------------------------------------------------- store_repository_data
\* delete_old_data(repo_id): four deletes against one cutoff.  k: how many of
\* them are done when a store call raises (4: none raises).
delete_old_data(k) ==
    /\ phase = "Pruning"
    /\ Cost(k < 4) <= faults
    /\ faults' = faults - Cost(k < 4)
    /\ LET thirty_days_ago == now - RetentionDays
       IN /\ commits' = IF k >= 1
                        THEN DeleteOlder(commits, repo_id, "committed_at", thirty_days_ago)
                        ELSE commits
          /\ pull_requests' = IF k >= 2
                              THEN DeleteOlder(pull_requests, repo_id, "created_at", thirty_days_ago)
                              ELSE pull_requests
          /\ issues' = IF k >= 3
                       THEN DeleteOlder(issues, repo_id, "created_at", thirty_days_ago)
                       ELSE issues
          /\ reviews' = IF k >= 4
                        THEN DeleteOlder(reviews, repo_id, "created_at", thirty_days_ago)
                        ELSE reviews
    /\ phase' = IF k = 4 THEN next_phase(phase) ELSE "Errored"
    /\ lastInsert' = NoInsert
    /\ UNCHANGED <<now, repositories, remote, fetchVars, poolVars, mainVars, localVars, ticks, syncStart,
                   since, preClean, latestAt>>

clean_duplicate_commits(rid) == clean_duplicates(commits, rid, "commits")
clean_duplicate_reviews(rid) == clean_duplicates(reviews, rid, "reviews")
clean_duplicate_prs(rid) == clean_duplicates(pull_requests, rid, "pull_requests")

\* The pre-pass cleanup: commits, reviews, pull requests.  k: how many of the
\* three are done when a store call raises (3: none raises).
clean_duplicate_rows(k) ==
    /\ phase = "Deduping"
    /\ Cost(k < 3) <= faults
    /\ faults' = faults - Cost(k < 3)
    /\ commits' \in (IF k >= 1 THEN clean_duplicate_commits(repo_id) ELSE {commits})
    /\ reviews' \in (IF k >= 2 THEN clean_duplicate_reviews(repo_id) ELSE {reviews})
    /\ pull_requests' \in (IF k >= 3 THEN clean_duplicate_prs(repo_id) ELSE {pull_requests})
    /\ preClean' = [kd \in Kinds |-> Table(kd)]
    /\ phase' = IF k = 3 THEN next_phase(phase) ELSE "Errored"
    /\ lastInsert' = NoInsert
    /\ UNCHANGED <<now, repositories, issues, remote, fetchVars, poolVars, mainVars, localVars, ticks,
                   syncStart, since, latestAt>>

\* The four get_latest_date calls.
latest_dates(raise) ==
    /\ phase = "WindowComputation"
    /\ Cost(raise) <= faults
    /\ faults' = faults - Cost(raise)
    /\ IF raise
       THEN /\ phase' = "Errored"
            /\ UNCHANGED latest
       ELSE /\ phase' = next_phase(phase)
            /\ latest' =
                 [commits |-> get_latest_date(commits, repo_id, "committed_at", now),
                  pull_requests |-> get_latest_date(pull_requests, repo_id, "created_at", now),
                  issues |-> get_latest_date(issues, repo_id, "created_at", now),
                  reviews |-> get_latest_date(reviews, repo_id, "created_at", now)]
    /\ lastInsert' = NoInsert
    /\ latestAt' = now
    /\ UNCHANGED <<now, storeVars, remote, fetchVars, poolVars, mainVars, repo_id, prStateIdx, rv_pc,
                   all_recent_prs, batch_i, all_review_data, ticks, syncStart, since,
                   preClean>>

FailPage(b) == IF b THEN 1 ELSE 0

\* A pool with a free thread takes the next task that waits.
can_start_unbounded(ex) == ex.pending > 0

can_start(ex) == ex.pending > 0 /\ ex.running < max_workers

\* The main thread going on as soon as every task has been started.
all_started(ex) == ex.pending = 0

\* list() over the results and the end of the with block: the main thread goes
\* on when every task of the pool is through.
all_done(ex) == ex.pending = 0 /\ ex.running = 0

\* executor.map hands every member of the list to the pool.
submit(tasks) == [open |-> TRUE, pending |-> Len(tasks), running |-> 0]

\* One thread of the pool starts on a task.
worker_start ==
    /\ executor.open
    /\ can_start(executor)
    /\ executor' = [executor EXCEPT !.pending = @ - 1, !.running = @ + 1]
    /\ UNCHANGED <<now, storeVars, remote, fetchVars, mainVars, phase, localVars, faults, ticks,
                   histVars, branches, throttles, gaveUp>>

\* One thread of the pool is through with its task.
worker_finish ==
    /\ executor.open
    /\ executor.running > 0
    /\ executor' = [executor EXCEPT !.running = @ - 1]
    /\ UNCHANGED <<now, storeVars, remote, fetchVars, mainVars, phase, localVars, faults, ticks,
                   histVars, branches, throttles, gaveUp>>

\* The commit phase up to its with block: the branch listing, and one task per
\* branch handed to a pool.  failB: the branch fetch gives up.
list_branches(failB) ==
    /\ phase = "FetchingCommits"
    /\ ~executor.open
    /\ Cost(failB) <= faults
    /\ faults' = faults - Cost(failB)
    /\ gaveUp' = gaveUp + Cost(failB)
    /\ branches' = Fetch(remote.branches, FailPage(failB))
    /\ executor' = submit(branches')
    /\ phase' = IF enters_error(FALSE, failB) THEN "Errored" ELSE phase
    /\ UNCHANGED <<now, storeVars, remote, fetchVars, mainVars, localVars, ticks, histVars,
                   throttles>>

\* The rest of the commit phase, when every task of the pool is through: the
\* results of fetch_commits_for_branch per branch, the insert filtering and the
\* insert.  failC: the branches whose commit fetch gave up; raise: a worker or
\* the select raises; bulkFails: the bulk insert fails.
fetch_commits(failC, raise, bulkFails) ==
    /\ phase = "FetchingCommits"
    /\ executor.open
    /\ all_done(executor)
    /\ executor' = NoExecutor
    /\ LET commit_data_list ==
               [i \in 1..Len(branches) |->
                   fetch_commits_for_branch(branches[i], latest.commits, repo_id, now,
                       Fetch(remote.commits, FailPage(i \in failC)))]
           commit_data == Flatten(commit_data_list)
           existing_keys == {CommitKey(c) : c \in OfRepo(commits, repo_id)}
           new_commit_data == NewCommits(commit_data, existing_keys)
           cost == Cardinality(failC) + Cost(raise) + Cost(bulkFails)
       IN /\ cost <= faults
          /\ failC \subseteq 1..Len(branches)
          /\ bulkFails => new_commit_data # <<>> /\ ~raise
          /\ faults' = faults - cost
          /\ gaveUp' = gaveUp + Cardinality(failC)
          /\ since' = [since EXCEPT !.commits =
                          [value |-> since_date(latest.commits, now), clock |-> now]]
          /\ IF enters_error(raise, failC # {})
             THEN /\ phase' = "Errored"
                  /\ lastInsert' = NoInsert
                  /\ UNCHANGED commits
             ELSE /\ phase' = next_phase(phase)
                  /\ \E ok \in OkSets(new_commit_data, bulkFails) :
                        /\ commits' =
                               InsertWithFallback(commits, new_commit_data, bulkFails, ok)
                        /\ lastInsert' = [step |-> "commits", rows |-> new_commit_data,
                                          bulkFailed |-> IF bulkFails THEN {1} ELSE {},
                                          ok |-> ok, before |-> commits]
    /\ UNCHANGED <<now, repositories, pull_requests, issues, reviews, remote, fetchVars, mainVars,
                   localVars, ticks, syncStart, preClean, latestAt, branches, throttles>>

pr_states == <<"open", "closed">>

PullsListing(st) == IF st = "open" THEN remote.pulls_open ELSE remote.pulls_closed

\* One iteration of the pull request loop.
fetch_prs(fail, raise, bulkFails) ==
    /\ phase = "FetchingPRs"
    /\ LET state == pr_states[prStateIdx]
           sinceD == since_date(latest.pull_requests, now)
           prs == Fetch(PullsListing(state), FailPage(fail))
           pr_data == MapPRs(prs, repo_id, now, sinceD)
           new_pr_data == NewByNumber(pr_data, pull_requests, repo_id)
           cost == Cost(fail) + Cost(raise) + Cost(bulkFails)
       IN /\ cost <= faults
          /\ bulkFails => new_pr_data # <<>> /\ ~raise
          /\ faults' = faults - cost
          /\ since' = [since EXCEPT !.pull_requests = [value |-> sinceD, clock |-> now]]
          /\ gaveUp' = gaveUp + Cost(fail)
          /\ IF enters_error(raise, fail)
             THEN /\ phase' = "Errored"
                  /\ lastInsert' = NoInsert
                  /\ UNCHANGED <<pull_requests, prStateIdx>>
             ELSE /\ phase' = IF prStateIdx = Len(pr_states) THEN next_phase(phase)
                              ELSE "FetchingPRs"
                  /\ prStateIdx' = prStateIdx + 1
                  /\ \E ok \in OkSets(new_pr_data, bulkFails) :
                        /\ pull_requests' =
                               InsertWithFallback(pull_requests, new_pr_data, bulkFails, ok)
                        /\ lastInsert' = [step |-> state, rows |-> new_pr_data,
                                          bulkFailed |-> IF bulkFails THEN {1} ELSE {},
                                          ok |-> ok, before |-> pull_requests]
    /\ UNCHANGED <<now, repositories, commits, issues, reviews, remote, fetchVars, mainVars,
                   repo_id, latest, rv_pc, all_recent_prs, batch_i, all_review_data, ticks,
                   syncStart, preClean, latestAt, branches, executor, throttles>>

\* The issue phase.
fetch_issues(fail, raise, bulkFails) ==
    /\ phase = "FetchingIssues"
    /\ LET sinceD == since_date(latest.issues, now)
           fetched == Fetch(IssuesSince(remote.issues, sinceD), FailPage(fail))
           issue_data == MapIssues(fetched, repo_id, now)
           new_issue_data == NewByNumber(issue_data, issues, repo_id)
           cost == Cost(fail) + Cost(raise) + Cost(bulkFails)
       IN /\ cost <= faults
          /\ bulkFails => new_issue_data # <<>> /\ ~raise
          /\ faults' = faults - cost
          /\ since' = [since EXCEPT !.issues = [value |-> sinceD, clock |-> now]]
          /\ gaveUp' = gaveUp + Cost(fail)
          /\ IF enters_error(raise, fail)
             THEN /\ phase' = "Errored"
                  /\ lastInsert' = NoInsert
                  /\ UNCHANGED issues
             ELSE /\ phase' = next_phase(phase)
                  /\ \E ok \in OkSets(new_issue_data, bulkFails) :
                        /\ issues' =
                               InsertWithFallback(issues, new_issue_data, bulkFails, ok)
                        /\ lastInsert' = [step |-> "issues", rows |-> new_issue_data,
                                          bulkFailed |-> IF bulkFails THEN {1} ELSE {},
                                          ok |-> ok, before |-> issues]
    /\ UNCHANGED <<now, repositories, commits, pull_requests, reviews, remote, fetchVars,
                   mainVars, localVars, ticks, syncStart, preClean, latestAt, branches,
                   executor, throttles>>

\* The review phase, up to its batch loop: the two pull request listings.
recent_prs(failOpen, failClosed) ==
    /\ phase = "FetchingReviews"
    /\ rv_pc = "list"
    /\ LET sinceD == since_date(latest.reviews, now)
           recent_prs_open == Fetch(remote.pulls_open, FailPage(failOpen))
           recent_prs_closed == Fetch(remote.pulls_closed, FailPage(failClosed))
           filtered_prs_closed ==
               SelectSeq(recent_prs_closed,
                         LAMBDA pr : format_date(pr.updated_at, now) >= sinceD)
           cost == Cost(failOpen) + Cost(failClosed)
       IN /\ cost <= faults
          /\ faults' = faults - cost
          /\ since' = [since EXCEPT !.reviews = [value |-> sinceD, clock |-> now]]
          /\ all_recent_prs' = recent_prs_open \o filtered_prs_closed
          /\ gaveUp' = gaveUp + cost
          /\ phase' = IF enters_error(FALSE, cost > 0) THEN "Errored" ELSE phase
    /\ rv_pc' = "batch"
    /\ batch_i' = 1
    /\ all_review_data' = <<>>
    /\ lastInsert' = NoInsert
    /\ UNCHANGED <<now, storeVars, remote, fetchVars, mainVars, repo_id, latest, prStateIdx,
                   ticks, syncStart, preClean, latestAt, branches, executor, throttles>>

\* What the rate_limit endpoint may answer at fetch time t; q: how many low
\* quota reports the service has left to give.
RateAnswers(t, q) ==
    {[page |-> 0, status |-> 200, remaining |-> rem, reset |-> rs, raises |-> "no"] :
        rem \in (IF q > 0 THEN {0, LowQuota - 1} ELSE {}) \cup {LowQuota},
        rs \in {0, t + ResetAhead}}
    \cup {[page |-> 0, status |-> 500, remaining |-> NoHeader, reset |-> 0, raises |-> "no"],
          [page |-> 0, status |-> 0, remaining |-> NoHeader, reset |-> 0, raises |-> "get"]}

\* check_rate_limit: the remaining quota of the answer, none without a 200.
check_rate_limit(resp) == IF resp.status = 200 THEN resp.remaining ELSE NoHeader

\* The throttle taken one too far: a quota of exactly 20 waits as well.
low_quota_or_equal(remaining) == remaining # NoHeader /\ remaining <= LowQuota

\* handle_rate_limit's test.
low_quota(remaining) == remaining # NoHeader /\ remaining < LowQuota

\* handle_rate_limit's sleep.
throttle_wait_time(reset_time, t) == Max(reset_time - t, 0) + ThrottleBuffer

\* The pull requests of the batch that starts at position i.
batch_at(prs, i) == SubSeq(prs, i, Min(i + BatchSize - 1, Len(prs)))

\* The top of the batch loop: handle_rate_limit(), then one task per pull
\* request of the batch handed to a pool.  answer: what the rate_limit
\* endpoint says (requests.get raising included).
handle_rate_limit(answer) ==
    /\ phase = "FetchingReviews"
    /\ rv_pc = "batch"
    /\ batch_i <= Len(all_recent_prs)
    /\ answer \in RateAnswers(time, quotaWaits)
    /\ Cost(answer.raises = "get") <= faults
    /\ faults' = faults - Cost(answer.raises = "get")
    /\ throttles' = throttles + 1
    /\ response' = answer
    /\ IF answer.raises = "get"
       THEN /\ phase' = "Errored"
            /\ UNCHANGED <<rv_pc, executor, time, slept, quotaWaits>>
       ELSE /\ phase' = phase
            /\ rv_pc' = "workers"
            /\ executor' = submit(batch_at(all_recent_prs, batch_i))
            /\ IF low_quota(check_rate_limit(answer))
               THEN /\ slept' = throttle_wait_time(answer.reset, time)
                    /\ time' = time + slept'
                    /\ quotaWaits' = Max(quotaWaits - 1, 0)
               ELSE /\ slept' = 0
                    /\ UNCHANGED <<time, quotaWaits>>
    /\ UNCHANGED <<now, storeVars, remote, mainVars, repo_id, latest, prStateIdx, all_recent_prs,
                   batch_i, all_review_data, ticks, histVars, branches, gaveUp, f_pc, items,
                   page, retry_count, retry_delay, collection, requested, failures>>

\* The rest of one batch of the review loop, when every task of the pool is
\* through: the results of fetch_reviews_for_pr for each pull request of the
\* batch.  failR: the pull requests (by position in the batch) whose review
\* fetch gave up; raise: a worker raises.
review_batch(failR, raise) ==
    /\ phase = "FetchingReviews"
    /\ rv_pc = "workers"
    /\ executor.open
    /\ all_done(executor)
    /\ executor' = NoExecutor
    /\ response' = NoResponse
    /\ rv_pc' = "batch"
    /\ LET batch_prs == batch_at(all_recent_prs, batch_i)
           batch_reviews ==
               [n \in 1..Len(batch_prs) |->
                   fetch_reviews_for_pr(batch_prs[n], repo_id, now,
                       Fetch(remote.reviews, FailPage(n \in failR)), reviews)]
           cost == Cardinality(failR) + Cost(raise)
       IN /\ cost <= faults
          /\ failR \subseteq 1..Len(batch_prs)
          /\ faults' = faults - cost
          /\ gaveUp' = gaveUp + Cardinality(failR)
          /\ IF enters_error(raise, failR # {})
             THEN /\ phase' = "Errored"
                  /\ UNCHANGED <<all_review_data, batch_i>>
             ELSE /\ phase' = phase
                  /\ all_review_data' = all_review_data \o Flatten(batch_reviews)
                  /\ batch_i' = batch_i + BatchSize
    /\ lastInsert' = NoInsert
    /\ UNCHANGED <<now, storeVars, remote, mainVars, repo_id, latest, prStateIdx,
                   all_recent_prs, ticks, syncStart, since, preClean, latestAt, branches,
                   throttles, f_pc, items, page, retry_count, retry_delay, time, collection,
                   quotaWaits, slept, requested, failures>>

\* The review insert, in sub-batches.
insert_reviews(failing) ==
    /\ phase = "FetchingReviews"
    /\ rv_pc = "batch"
    /\ batch_i > Len(all_recent_prs)
    /\ LET total_batches == (Len(all_review_data) + InsertBatchSize - 1) \div InsertBatchSize
       IN /\ Cardinality(failing) <= faults
          /\ failing \subseteq 1..total_batches
          /\ faults' = faults - Cardinality(failing)
    /\ \E ok \in OkSets(all_review_data, failing # {}) :
          /\ reviews' = InsertReviewBatches(reviews, all_review_data, 1, failing, ok)
          /\ lastInsert' = [step |-> "reviews", rows |-> all_review_data,
                            bulkFailed |-> failing, ok |-> ok, before |-> reviews]
    /\ phase' = next_phase(phase)
    /\ rv_pc' = "insert"
    /\ UNCHANGED <<now, repositories, commits, pull_requests, issues, remote, fetchVars, poolVars, mainVars,
                   repo_id, latest, prStateIdx, all_recent_prs, batch_i, all_review_data,
                   ticks, syncStart, since, preClean, latestAt>>

Step ==
    \/ main_start
    \/ main_return
    \/ \E raise \in BOOLEAN : Begin(raise)
    \/ Return
    \/ \E k \in 0..4 : delete_old_data(k)
    \/ \E k \in 0..3 : clean_duplicate_rows(k)
    \/ \E raise \in BOOLEAN : latest_dates(raise)
    \/ \E failB \in BOOLEAN : list_branches(failB)
    \/ worker_start
    \/ worker_finish
    \/ \E raise, bulkFails \in BOOLEAN : \E failC \in SUBSET (1..2) :
         fetch_commits(failC, raise, bulkFails)
    \/ \E fail, raise, bulkFails \in BOOLEAN : fetch_prs(fail, raise, bulkFails)
    \/ \E fail, raise, bulkFails \in BOOLEAN : fetch_issues(fail, raise, bulkFails)
    \/ \E failOpen, failClosed \in BOOLEAN : recent_prs(failOpen, failClosed)
    \/ \E answer \in RateAnswers(time, quotaWaits) : handle_rate_limit(answer)
    \/ \E failR \in SUBSET (1..2), raise \in BOOLEAN : review_batch(failR, raise)
    \/ \E failing \in SUBSET (1..2) : insert_reviews(failing)

Next == Tick \/ Step

\* One run of main over one repository, without failures, the clock moving.
Spec == Init /\ [][Next]_vars

\* main run again and again over one repository, without failures, in no time.
SpecTwice == InitTwice /\ [][Step]_vars

\* One run of main over two repositories, with failures, in no time.
SpecFaults == InitFaults /\ [][Step]_vars

\* ---------------------------------------------- many branches, many pulls
\* A repository with more branches than a pool has threads and more open pull
\* requests than a batch takes; every branch has one commit, every pull
\* request one review.
BranchNames == <<"main", "dev", "b3", "b4", "b5", "b6", "b7", "b8", "b9">>

RemoteWide(b, p) ==
    [NoRemote EXCEPT
        !.branches = SubSeq(BranchNames, 1, b),
        !.commits = <<[message |-> "m1", author |-> "alice", date |-> DateNew]>>,
        !.pulls_open = [n \in 1..p |->
                           [number |-> n, created_at |-> DateNew, updated_at |-> DateNew,
                            state |-> "open"]],
        !.reviews = <<[id |-> 1, author |-> "alice", submitted_at |-> DateNew]>>]

InitWide ==
    /\ commits = {}
    /\ pull_requests = {}
    /\ issues = {}
    /\ reviews = {}
    /\ remote \in {RemoteWide(b, p) : b \in {1, MaxBranches - 1, MaxBranches},
                                       p \in 0..MaxPulls}
    /\ InitRest({<<"r1", "r2">>}, 0, 0, 1, MaxQuotaWaits)

\* One run of main over two repositories with many branches and pull
\* requests, the service reporting a low quota now and then.
SpecWide == InitWide /\ [][Step]_vars

\* ------------------------------------------- issues and pull requests
\* The remote numbers issues and pull requests in one sequence, and its issue
\* listing holds a record for each of them: the record of a pull request
\* carries the pull_request key.  kinds: what each number is.
IssueRecord(n, kinds) ==
    [number |-> n, created_at |-> DateNew, updated_at |-> DateNew,
     pull_request |-> kinds[n] = "pull"]

PullRecord(n) ==
    [number |-> n, created_at |-> DateNew, updated_at |-> DateNew, state |-> "open"]

RemoteNumbered(kinds) ==
    [NoRemote EXCEPT
        !.issues = [n \in 1..MaxList |-> IssueRecord(n, kinds)],
        !.pulls_open = SelectSeq([n \in 1..MaxList |-> PullRecord(n)],
                                 LAMBDA p : kinds[p.number] = "pull")]

NumberKinds == [1..MaxList -> {"issue", "pull"}]

InitNumbered ==
    /\ commits = {}
    /\ pull_requests = {}
    /\ issues = {}
    /\ reviews = {}
    /\ remote \in {RemoteNumbered(kinds) : kinds \in NumberKinds}
    /\ InitRest({<<"r1">>}, 0, 0, MaxRuns, 0)

\* Between two runs of main somebody turns an issue into a pull request: the
\* service keeps its number, its record in the issue listing now carries the
\* pull_request key, and the pull request listing holds it.
convert_issue ==
    /\ m_pc = "start"
    /\ \E kinds \in NumberKinds : \E n \in 1..MaxList :
          /\ remote = RemoteNumbered(kinds)
          /\ kinds[n] = "issue"
          /\ remote' = RemoteNumbered([kinds EXCEPT ![n] = "pull"])
    /\ UNCHANGED <<now, storeVars, fetchVars, poolVars, mainVars, phase, localVars, faults, ticks,
                   histVars>>

NextNumbered == Step \/ convert_issue

\* main run again and again over one repository whose issues may turn into
\* pull requests between the runs.
SpecNumbered == InitNumbered /\ [][NextNumbered]_vars

\* -------------------------------------------------- fetch_paginated_data
orchVars == <<now, storeVars, remote, mainVars, phase, localVars, faults, ticks, histVars,
              poolVars>>

\* The records the service holds for the requested URL are numbered from 1;
\* page p of the collection holds the next PerPage of them.
Records(n) == [i \in 1..n |-> i]

PageOf(n, p) ==
    IF (p - 1) * PerPage >= n
    THEN <<>>
    ELSE SubSeq(Records(n), (p - 1) * PerPage + 1, Min(p * PerPage, n))

\* What requests.get may come back with for page p at time t: it raises, or it
\* answers with a status and the quota headers, and the body of a 200 may fail
\* to parse.  q: quota-exhausted answers still allowed.
Responses(p, t, q) ==
    LET answers ==
          {[page |-> p, status |-> st, remaining |-> rem, reset |-> rs, raises |-> rz] :
              st \in {200, 403, 500}, rem \in {NoHeader, 0, 1},
              rs \in {0, t + ResetAhead}, rz \in {"no", "json"}}
    IN {r \in answers :
           /\ r.raises = "json" => r.status = 200
           /\ r.reset # 0 => (r.status = 403 /\ r.remaining = 0)
           /\ (r.status = 403 /\ r.remaining = 0) => q > 0}
       \cup {[page |-> p, status |-> 0, remaining |-> NoHeader, reset |-> 0,
              raises |-> "get"]}

rate_limited(resp) ==
    /\ resp.status = 403
    /\ resp.remaining # NoHeader
    /\ resp.remaining = 0

wait_time_no_buffer(reset_time, t) == Max(reset_time - t, 0)

wait_time(reset_time, t) == Max(reset_time - t, 0) + Buffer

give_up_early(rc) == rc >= max_retries

\* The comparison taken one too far: a full page ends the loop.
short_page_or_full(new_items) == Len(new_items) <= PerPage

\* A page with fewer records than were asked for is the last one.
short_page(new_items) == Len(new_items) < PerPage

give_up(rc) == rc > max_retries

\* A backoff that grows by the initial delay instead of doubling.
backoff_linear(delay) == delay + InitialDelay

\* The delay of the retry after a retry that waited delay seconds.
backoff(delay) == delay * 2

InitFetch ==
    /\ now = Now0
    /\ repositories = {}
    /\ commits = {}
    /\ pull_requests = {}
    /\ issues = {}
    /\ reviews = {}
    /\ remote = NoRemote
    /\ repos = <<>>
    /\ m_pc = "done"
    /\ run = 0
    /\ repoIdx = 0
    /\ phase = "Idle"
    /\ repo_id = 0
    /\ latest = NoLatest
    /\ prStateIdx = 1
    /\ rv_pc = "list"
    /\ all_recent_prs = <<>>
    /\ batch_i = 1
    /\ all_review_data = <<>>
    /\ faults = 0
    /\ ticks = 0
    /\ runsLeft = 0
    /\ syncStart = 0
    /\ calls = <<>>
    /\ since = NoSince
    /\ lastInsert = NoInsert
    /\ preClean = [k \in Kinds |-> {}]
    /\ latestAt = 0
    /\ outcomes = <<>>
    /\ countsAfter = <<>>
    /\ f_pc = "request"
    /\ items = <<>>
    /\ page = 1
    /\ retry_count = 0
    /\ retry_delay = InitialDelay
    /\ response = NoResponse
    /\ time = Time0
    /\ collection \in {(k * PerPage) \div 2 : k \in 0..MaxHalfPages}
    /\ quotaWaits = MaxQuotaWaits
    /\ slept = 0
    /\ requested = <<>>
    /\ failures = 0
    /\ branches = <<>>
    /\ executor = NoExecutor
    /\ throttles = 0
    /\ gaveUp = 0

\* The top of the loop: the request for the current page.
request ==
    /\ f_pc = "request"
    /\ response' \in Responses(page, time, quotaWaits)
    /\ requested' = Append(requested, page)
    /\ f_pc' = "respond"
    /\ UNCHANGED <<orchVars, items, page, retry_count, retry_delay, time, collection,
                   quotaWaits, slept, failures>>

\* The quota is used up: sleep until the reset and ask again.  time.sleep
\* returns after the time asked for, or later.
on_rate_limit ==
    /\ f_pc = "respond"
    /\ response.raises # "get"
    /\ rate_limited(response)
    /\ LET wait == wait_time(response.reset, time)
       IN \E late \in 0..MaxLate :
             /\ time' = time + wait + late
             /\ slept' = wait + late
    /\ quotaWaits' = quotaWaits - 1
    /\ failures' = failures + 1
    /\ f_pc' = "request"
    /\ UNCHANGED <<orchVars, items, page, retry_count, retry_delay, response, collection,
                   requested>>

\* Both failure branches: count the failure, give up or back off.
Retry ==
    /\ retry_count' = retry_count + 1
    /\ IF give_up(retry_count + 1)
       THEN /\ f_pc' = "returned"
            /\ UNCHANGED <<retry_delay, time, slept>>
       ELSE /\ time' = time + retry_delay
            /\ slept' = retry_delay
            /\ retry_delay' = backoff(retry_delay)
            /\ f_pc' = "request"
    /\ failures' = failures + 1
    /\ UNCHANGED <<orchVars, items, page, response, collection, quotaWaits, requested>>

\* Any other answer than 200.
on_status_error ==
    /\ f_pc = "respond"
    /\ response.raises # "get"
    /\ ~rate_limited(response)
    /\ response.status # 200
    /\ Retry

\* The except clause: requests.get or response.json raised.
on_exception ==
    /\ f_pc = "respond"
    /\ \/ response.raises = "get"
       \/ /\ ~rate_limited(response)
          /\ response.status = 200
          /\ response.raises = "json"
    /\ Retry

\* A 200 with a body: take the page, stop at an empty or short one.
on_success ==
    /\ f_pc = "respond"
    /\ response.raises = "no"
    /\ ~rate_limited(response)
    /\ response.status = 200
    /\ LET new_items == PageOf(collection, response.page)
       IN IF new_items = <<>>
          THEN /\ f_pc' = "returned"
               /\ UNCHANGED <<items, page, retry_count, retry_delay>>
          ELSE /\ items' = items \o new_items
               /\ IF short_page(new_items)
                  THEN /\ f_pc' = "returned"
                       /\ UNCHANGED <<page, retry_count, retry_delay>>
                  ELSE /\ page' = page + 1
                       /\ retry_count' = 0
                       /\ retry_delay' = InitialDelay
                       /\ f_pc' = "request"
    /\ UNCHANGED <<orchVars, response, time, collection, quotaWaits, slept, requested,
                   failures>>

NextFetch ==
    \/ request
    \/ on_rate_limit
    \/ on_status_error
    \/ on_exception
    \/ on_success

\* One call of fetch_paginated_data against a service that fails at will.
SpecFetch == InitFetch /\ [][NextFetch]_vars

\* ------------------------------------------------------------- liveness
\* A run of main over two repositories with failures, or one call of
\* fetch_paginated_data, under a scheduler that lets the process take its
\* next step whenever it has one and a remote that answers every request.
InitLive == InitFaults \/ InitFetch

NextLive == Step \/ NextFetch

SpecLive == InitLive /\ [][NextLive]_vars /\ WF_vars(Step) /\ WF_vars(NextFetch)

\* ================================================================ claims
PrimaryDate(kind) == IF kind = "commits" THEN "committed_at" ELSE "created_at"

RowsOf(kind, rid) == OfRepo(Table(kind), rid)

OnePerKey(kind, rows) ==
    \A r1, r2 \in rows : KeyOf(kind, r1) = KeyOf(kind, r2) => r1 = r2

\* C1: when store_repository_data ends without error, no row of the repository,
\* in any of the four tables, has its primary date before the clock at the
\* start of the sync minus 30 days.
C1_Retention ==
    phase = "Done" =>
        \A k \in Kinds : \A r \in RowsOf(k, repo_id) :
            r[PrimaryDate(k)] >= syncStart - RetentionDays

\* C2: when store_repository_data ends without error, each of the four tables
\* holds at most one row of the repository per logical identity.
C2_Uniqueness ==
    phase = "Done" => \A k \in Kinds : OnePerKey(k, RowsOf(k, repo_id))

KindOfStep(step) ==
    CASE step = "commits" -> "commits"
      [] step \in {"open", "closed"} -> "pull_requests"
      [] step = "issues" -> "issues"
      [] step = "reviews" -> "reviews"

\* C5: the rows an insert step hands to the store hold each logical identity
\* at most once, and none that the table held before the step.
C5_BatchDedup ==
    lastInsert.step # "none" =>
        LET k == KindOfStep(lastInsert.step)
            rows == lastInsert.rows
        IN /\ \A i, j \in 1..Len(rows) :
                 KeyOf(k, rows[i]) = KeyOf(k, rows[j]) => i = j
           /\ \A i \in 1..Len(rows) :
                 KeyOf(k, rows[i]) \notin {KeyOf(k, r) : r \in lastInsert.before}

Cleaned == {"commits", "pull_requests", "reviews"}

\* C4: after the pre-pass cleanup, of every set of rows of the repository that
\* shared a logical identity (in commits, pull_requests or reviews) exactly one
\* row is left, one whose ingestion timestamp is the greatest of the set; no
\* other row is touched.
C4_Cleanup ==
    phase = "WindowComputation" =>
        \A k \in Cleaned :
            LET before == preClean[k]
                after == Table(k)
            IN /\ after \subseteq before
               /\ before \ after \subseteq OfRepo(before, repo_id)
               /\ \A r \in OfRepo(before, repo_id) :
                     LET group == {x \in OfRepo(before, repo_id) :
                                      KeyOf(k, x) = KeyOf(k, r)}
                         left == group \cap after
                     IN /\ Cardinality(left) = 1
                        /\ \A x \in left : \A y \in group :
                              x[SortField(k)] >= y[SortField(k)]

\* C4's case: the cleanup found two rows of one identity with different
\* ingestion timestamps, and a row that stood alone.
C4_Witness ==
    /\ phase = "WindowComputation"
    /\ \E k \in Cleaned : \E r1, r2 \in OfRepo(preClean[k], repo_id) :
          /\ KeyOf(k, r1) = KeyOf(k, r2)
          /\ r1[SortField(k)] < r2[SortField(k)]
    /\ \E k \in Cleaned : \E r \in OfRepo(preClean[k], repo_id) :
          \A x \in OfRepo(preClean[k], repo_id) : KeyOf(k, x) = KeyOf(k, r) => x = r

\* The latest stored date of a kind, the default when the store holds none.
LatestStored(kind, default) ==
    IF RowsOf(kind, repo_id) = {} THEN default
    ELSE SetMax({r[PrimaryDate(kind)] : r \in RowsOf(kind, repo_id)})

\* The kinds whose table the sync has not inserted into since it read the
\* latest dates.
Untouched ==
    CASE phase = "FetchingCommits" -> Kinds
      [] phase = "FetchingPRs" /\ prStateIdx = 1 -> Kinds \ {"commits"}
      [] phase = "FetchingPRs" /\ prStateIdx # 1 -> {"issues", "reviews"}
      [] phase = "FetchingIssues" -> {"issues", "reviews"}
      [] phase = "FetchingReviews" -> {"reviews"}
      [] OTHER -> {}

NoRepeats(s) == \A i, j \in 1..Len(s) : s[i] = s[j] => i = j

Numbers(listing) == [i \in 1..Len(listing) |-> listing[i].number]

\* The remote lists every pull request, issue and review once.
ListsOnce ==
    /\ NoRepeats(Numbers(remote.pulls_open \o remote.pulls_closed))
    /\ NoRepeats(Numbers(remote.issues))
    /\ NoRepeats([i \in 1..Len(remote.reviews) |-> remote.reviews[i].id])

C6_Isolation ==
    /\ m_pc # "crashed"
    /\ Len(calls) <= Len(repos)
    /\ calls = SubSeq(repos, 1, Len(calls))
    /\ Len(outcomes) <= Len(calls)
    /\ (m_pc = "start" /\ run > 0) => calls = repos /\ Len(outcomes) = Len(repos)

\* C6's case: main has returned after the sync of the first repository ended
\* in the error handler and the second was processed to its end.
C6_Witness ==
    /\ m_pc = "start"
    /\ run > 0
    /\ Len(repos) > 1
    /\ outcomes[1] = "Errored"
    /\ outcomes[Len(repos)] = "Done"

AfterStep(step) ==
    CASE step \in {"commits", "open"} -> "FetchingPRs"
      [] step = "closed" -> "FetchingIssues"
      [] step = "issues" -> "FetchingReviews"
      [] step = "reviews" -> "Done"

BatchOf(step, i) ==
    IF step = "reviews" THEN ((i - 1) \div InsertBatchSize) + 1 ELSE 1

Strip(r) == [r EXCEPT !.id = 0]

\* C7: when a bulk insert fails, the rows stored by the step are exactly the
\* rows of the failed batch whose own insert succeeds (and the rows of the
\* batches that did not fail), each once, and the sync is at its next phase,
\* not in the error state.
C7_Fallback ==
    lastInsert.bulkFailed # {} =>
        LET k == KindOfStep(lastInsert.step)
            rows == lastInsert.rows
            kept == {i \in 1..Len(rows) :
                        \/ BatchOf(lastInsert.step, i) \notin lastInsert.bulkFailed
                        \/ i \in lastInsert.ok}
            added == Table(k) \ lastInsert.before
        IN /\ phase = AfterStep(lastInsert.step)
           /\ lastInsert.before \subseteq Table(k)
           /\ Cardinality(added) = Cardinality(kept)
           /\ {Strip(r) : r \in added} = {rows[i] : i \in kept}

\* C7's case: the first sub-batch of a review insert of more than one
\* sub-batch failed, some but not all of its rows went in one by one, and the
\* rows of the second sub-batch followed.
C7_Witness ==
    /\ lastInsert.step = "reviews"
    /\ Len(lastInsert.rows) > InsertBatchSize
    /\ lastInsert.bulkFailed = {1}
    /\ lastInsert.ok # {}
    /\ Cardinality(lastInsert.ok) < InsertBatchSize
    /\ phase = "Done"
    /\ Cardinality(reviews) = Cardinality(lastInsert.before)
                                + Cardinality(lastInsert.ok)
                                + Len(lastInsert.rows) - InsertBatchSize


\* The answer in hand is the quota-exhausted one: HTTP 403 with a remaining
\* quota of zero.
QuotaExhausted ==
    /\ f_pc = "respond"
    /\ response.raises # "get"
    /\ response.status = 403
    /\ response.remaining = 0

\* The answer in hand is a failure: an exception, or a status other than 200
\* that is not the quota-exhausted one.
Failed ==
    /\ response.page > 0
    /\ ~(response.raises # "get" /\ response.status = 403 /\ response.remaining = 0)
    /\ (response.raises # "no" \/ response.status # 200)

\* C8: when the service answers HTTP 403 with a remaining quota of zero,
\* fetch_paginated_data sleeps at least max(reset - now, 0) + 5 seconds and
\* then asks for the same page again: the page index, the retry counter, the
\* retry delay and the accumulated items are as they were, and every request
\* carries the current page index.
C8_QuotaWait ==
    [][/\ QuotaExhausted =>
            /\ f_pc' = "request"
            /\ page' = page
            /\ retry_count' = retry_count
            /\ retry_delay' = retry_delay
            /\ items' = items
            /\ slept' >= (IF response.reset > time THEN response.reset - time ELSE 0) + 5
            /\ time' - time >= slept'
       /\ f_pc = "request" => (f_pc' = "respond" /\ response'.page = page)]_vars

\* C8's case: a quota wait has just ended on the second page, with one failed
\* attempt of that page counted and the first page in hand; the reset lay
\* ahead, so the sleep was longer than the buffer.
C8_Witness ==
    /\ f_pc = "request"
    /\ quotaWaits = 0
    /\ response.status = 403
    /\ response.remaining = 0
    /\ response.reset > 0
    /\ slept > 5
    /\ page = 2
    /\ retry_count = 1
    /\ Len(items) = PerPage

\* C9: every answer other than 200 and every exception raises the retry
\* counter of the page by one; while no more than 5 retries of the page have
\* failed the same page is asked for again, and when the fifth retry has failed
\* the function returns just the items of the pages before this one.  It
\* always ends by returning: there is no other way out of the loop.
C9_BoundedRetry ==
    /\ [](/\ f_pc \in {"request", "respond", "returned"}
          /\ retry_count <= 5 + 1
          /\ f_pc # "returned" => retry_count <= 5
          /\ (f_pc = "returned" /\ Failed) =>
                /\ retry_count = 5 + 1
                /\ items = Records((page - 1) * PerPage))
    /\ [][(f_pc = "respond" /\ Failed) =>
              /\ retry_count' = retry_count + 1
              /\ page' = page
              /\ items' = items
              /\ f_pc' = (IF retry_count = 5 THEN "returned" ELSE "request")]_vars

\* C9's case: the function gave up on the second page, after failures of
\* both sorts, and returned the first page.
C9_Witness ==
    /\ f_pc = "returned"
    /\ Failed
    /\ response.raises = "json"
    /\ page = 2
    /\ retry_count = 5 + 1
    /\ Len(items) = PerPage
    /\ collection > PerPage
    /\ quotaWaits < MaxQuotaWaits

\* The remote marks every record of its issue listing that stands for a pull
\* request with the pull_request key.
MarksPulls ==
    \A i \in 1..Len(remote.issues) :
        (\E j \in 1..Len(remote.pulls_open \o remote.pulls_closed) :
            (remote.pulls_open \o remote.pulls_closed)[j].number = remote.issues[i].number)
        => remote.issues[i].pull_request

\* No record that carries the pull_request key is handed to the issue insert.
NoMarkedInserted ==
    lastInsert.step = "issues" =>
        \A k \in 1..Len(lastInsert.rows) :
            \A i \in 1..Len(remote.issues) :
                remote.issues[i].number = lastInsert.rows[k].number
                => ~remote.issues[i].pull_request

\* C11: with every pull request's record in the issue listing marked, no
\* repository and number has a row in issues and a row in pull_requests, and
\* no marked record is handed to the issue insert.
C11_Disjoint ==
    MarksPulls =>
        /\ \A i \in issues : \A p \in pull_requests :
              ~(i.repository_id = p.repository_id /\ i.number = p.number)
        /\ NoMarkedInserted

\* C12: from the pull-request phase on, a run changes no stored pull request
\* row (its state field included) and inserts no row whose repository and
\* number a stored row has, whatever state the remote reports for it.
C12_Refetch ==
    [][(phase \in {"FetchingPRs", "FetchingIssues", "FetchingReviews"}) =>
          (/\ pull_requests \subseteq pull_requests'
           /\ \A r \in pull_requests' \ pull_requests : \A q \in pull_requests :
                 ~(q.repository_id = r.repository_id /\ q.number = r.number))]_vars

\* C12's case: the closed listing reports, inside the window, a pull request
\* that the store holds as open; the step inserted nothing and the stored row
\* is there as it was.
C12_Witness ==
    /\ lastInsert.step = "closed"
    /\ lastInsert.rows = <<>>
    /\ \E q \in lastInsert.before : \E i \in 1..Len(remote.pulls_closed) :
          /\ q.repository_id = repo_id
          /\ q.state = "open"
          /\ q \in pull_requests
          /\ remote.pulls_closed[i].number = q.number
          /\ remote.pulls_closed[i].state = "closed"
          /\ remote.pulls_closed[i].created_at >= since.pull_requests.value

\* The pages fetch_paginated_data has still to ask for: the last page of a
\* collection is the first short or empty one.
PagesLeft == (collection \div PerPage) + 1 - page + 1

\* What bounds the loop of fetch_paginated_data apart from the quota waits:
\* the pages left and, on the current page, the retries left.
FetchMeasure ==
    IF f_pc \in {"idle", "returned"} THEN 0
    ELSE 2 * (PagesLeft * (5 + 1) - retry_count) + (IF f_pc = "request" THEN 1 ELSE 0)

MainReturned == f_pc = "idle" /\ m_pc = "start" /\ run > 0 /\ calls = repos

FetchStep ==
    /\ f_pc \in {"request", "respond"}
    /\ f_pc' # f_pc

\* C13: with finite collections and finitely many quota-exhausted answers,
\* main returns after store_repository_data was called for every configured
\* repository, and a call of fetch_paginated_data returns.  Every step of the
\* fetch but the quota wait lowers the bound that pages and retries set on
\* the loop; a quota wait uses up one of the remote's quota-exhausted answers
\* and puts the bound back to where it was before the request, so that the
\* number of those answers alone limits how often one page is asked for.
C13_Termination ==
    /\ <>(MainReturned \/ f_pc = "returned")
    /\ [](f_pc \in {"request", "respond"} => FetchMeasure > 0)
    /\ [][FetchStep =>
             IF QuotaExhausted
             THEN /\ FetchMeasure' = FetchMeasure + 1
                  /\ quotaWaits' = quotaWaits - 1
                  /\ response'.page = response.page
             ELSE /\ FetchMeasure' < FetchMeasure
                  /\ quotaWaits' = quotaWaits]_vars

\* C13's case: main has returned from a run that called
\* store_repository_data for both repositories, one of the calls ending in
\* the error handler.
C13_Witness ==
    /\ MainReturned
    /\ Len(repos) > 1
    /\ \E i \in 1..Len(outcomes) : outcomes[i] = "Errored"

\* The pages 1..n of the collection, one after another.
PagesUpTo(n) == Flatten([i \in 1..n |-> PageOf(collection, i)])

\* C14: as long as no answer was a failure or a quota-exhausted one, the pages
\* requested are 1, 2, 3, ... in order, every page before the last one
\* requested was a full page of 100, and when the function has returned the
\* last page requested is a short or an empty one and the list returned is
\* the pages requested, one after another.
C14_Pagination ==
    failures = 0 =>
        /\ requested = [i \in 1..Len(requested) |-> i]
        /\ \A i \in 1..(Len(requested) - 1) : Len(PageOf(collection, i)) = 100
        /\ f_pc = "returned" =>
              /\ Len(requested) > 0
              /\ Len(PageOf(collection, Len(requested))) < 100
              /\ items = PagesUpTo(Len(requested))
        /\ f_pc \in {"request", "respond"} => items = PagesUpTo(page - 1)

\* C14's case: a collection of two full pages, fetched without a failure: the
\* third page came back empty and the function returned the 200 records.
C14_Witness ==
    /\ f_pc = "returned"
    /\ failures = 0
    /\ collection = 2 * PerPage
    /\ requested = <<1, 2, 3>>
    /\ Len(items) = 2 * PerPage

PhaseOrder ==
    <<"Pruning", "Deduping", "WindowComputation", "FetchingCommits", "FetchingPRs",
      "FetchingIssues", "FetchingReviews", "Done">>

PhaseRank(p) == CHOOSE i \in 1..Len(PhaseOrder) : PhaseOrder[i] = p

\* C15: inside one call of store_repository_data the position only moves from a
\* phase to the phase right after it in the order Pruning, Deduping,
\* WindowComputation, FetchingCommits, FetchingPRs, FetchingIssues,
\* FetchingReviews, Done, or from a phase before Done to the error state; a
\* call starts at Pruning (or fails at once) and ends only from Done or from
\* the error state; and the one step taken from the error state is the return
\* to main, which leaves the store, the remote, the fetcher and the call list
\* as they are.
C15_PhaseOrder ==
    [][/\ (phase' # phase) =>
             \/ /\ phase = "Idle"
                /\ phase' \in {"Pruning", "Errored"}
             \/ /\ phase \in Range(PhaseOrder) \ {"Done"}
                /\ \/ phase' = "Errored"
                   \/ /\ phase' \in Range(PhaseOrder)
                      /\ PhaseRank(phase') = PhaseRank(phase) + 1
             \/ /\ phase \in {"Done", "Errored"}
                /\ phase' = "Idle"
       /\ (phase = "Errored") =>
             /\ phase' = "Idle"
             /\ repoIdx' = repoIdx + 1
             /\ UNCHANGED <<storeVars, remote, fetchVars, calls, localVars>>]_vars

\* C15's case: a call that went through every phase up to the review phase,
\* listed the pull requests there, and then entered the error state; the call
\* before it ran through all phases to Done.
C15_Witness ==
    /\ phase = "Errored"
    /\ rv_pc = "batch"
    /\ outcomes = <<"Done">>

RECURSIVE Pow2(_)
Pow2(n) == IF n = 0 THEN 1 ELSE 2 * Pow2(n - 1)

\* A step of the failure branches that sleeps and goes back to the request.
RetrySleep == /\ retry_count' = retry_count + 1
              /\ f_pc' = "request"

\* C16: the sleep before the k-th retry in a row of a page, k = 1..5, is
\* 5 * 2^(k-1) seconds; the next delay is always 5 * 2^retry_count; the step
\* that moves to the next page puts the retry counter back to 0 and the delay
\* back to 5; and a call gives up on a failure only at the sixth failure in a
\* row of one page, whichever page it is.
C16_Backoff ==
    /\ [](f_pc \in {"request", "respond"} =>
             /\ retry_count \in 0..5
             /\ retry_delay = 5 * Pow2(retry_count))
    /\ [][/\ RetrySleep =>
                /\ retry_count' \in 1..5
                /\ slept' = 5 * Pow2(retry_count' - 1)
                /\ time' = time + slept'
          /\ (page' # page) =>
                /\ retry_count' = 0
                /\ retry_delay' = 5
          /\ (retry_count' = retry_count + 1 /\ f_pc' = "returned") =>
                retry_count' = 6]_vars

\* C16's case: no quota wait, one failure on page 1, then page 1 fetched, then
\* five failures in a row on page 2, the last of them slept 80 seconds: the
\* waits were 5, then 5, 10, 20, 40, 80.
C16_Witness ==
    /\ f_pc = "request"
    /\ page = 2
    /\ retry_count = 5
    /\ slept = 80
    /\ failures = 6
    /\ quotaWaits = MaxQuotaWaits
    /\ time = Time0 + 5 + 155

\* The pull request numbers of the review rows gathered so far.
GatheredFor == [i \in 1..Len(all_review_data) |-> all_review_data[i].pr_number]

\* The step that takes the top of the batch loop to its workers.
ThrottleStep == /\ phase = "FetchingReviews"
                /\ rv_pc = "batch"
                /\ rv_pc' = "workers"

MainThreadStep ==
    ~UNCHANGED <<now, storeVars, remote, mainVars, phase, localVars, faults, ticks, histVars,
                 branches, throttles, gaveUp, fetchVars>>

\* C18: at most 5 workers are in flight at any moment; a pool with its
\* workers exists only in the commit phase, with one task per branch, and in
\* the review phase between the throttle of a batch and the gathering of its
\* results, with one task per pull request of the batch; and while a task of a
\* pool waits or runs the main thread takes no step: no listing fetch, no
\* store access, no other phase, no other repository.
C18_BoundedWorkers ==
    /\ [](/\ executor.running \in 0..5
          /\ executor.open =>
                \/ /\ phase = "FetchingCommits"
                   /\ executor.pending + executor.running <= Len(branches)
                \/ /\ phase = "FetchingReviews"
                   /\ rv_pc = "workers"
                   /\ executor.pending + executor.running
                         <= Len(batch_at(all_recent_prs, batch_i))
          /\ ~executor.open => (executor.pending = 0 /\ executor.running = 0))
    /\ [][/\ (executor.pending + executor.running > 0) => ~MainThreadStep
          /\ (executor.running' > executor.running) =>
                (executor.running' = executor.running + 1 /\ ~MainThreadStep)
          /\ (~executor.open /\ executor'.open) =>
                executor'.pending =
                    IF phase = "FetchingCommits" THEN Len(branches')
                    ELSE Len(batch_at(all_recent_prs, batch_i))]_vars

\* C18's case: the second repository, seven branches: five workers of the
\* commit phase are in flight and two branches wait for a free thread.
C18_Witness ==
    /\ repoIdx = 2
    /\ phase = "FetchingCommits"
    /\ Len(branches) = 7
    /\ executor.running = 5
    /\ executor.pending = 2

\* The answer in hand is a 200 whose body was read.
PageRead ==
    /\ f_pc = "respond"
    /\ response.status = 200
    /\ response.raises = "no"
    /\ ~rate_limited(response)

\* C20: in fetch_paginated_data, whatever the answers, the page index never
\* goes down, and it goes up, by exactly 1, exactly in the step that has read
\* a page of exactly 100 records; the accumulated list changes only in a step
\* that has read a page, by that page's records at its end; so while the loop
\* runs the list is the pages before the current one, 100 * (page - 1)
\* records, and once the function has returned it is those pages and at most
\* the current one: no page is in the list twice.
C20_LoopInvariant ==
    /\ [](/\ f_pc \in {"request", "respond"} =>
                /\ Len(items) = 100 * (page - 1)
                /\ items = PagesUpTo(page - 1)
          /\ f_pc = "returned" => items \in {PagesUpTo(page - 1), PagesUpTo(page)})
    /\ [][/\ page' >= page
          /\ (page' # page) <=> (PageRead /\ Len(PageOf(collection, page)) = 100)
          /\ (page' # page) => page' = page + 1
          /\ (items' # items) =>
                /\ PageRead
                /\ response.page = page
                /\ items' = items \o PageOf(collection, page)]_vars

\* C20's case: the second page is being asked for a third time, after one
\* failure and one quota wait on it, and the first page was asked for twice;
\* the list holds the first page once.
C20_Witness ==
    /\ f_pc = "request"
    /\ page = 2
    /\ retry_count = 1
    /\ quotaWaits < MaxQuotaWaits
    /\ failures >= 3
    /\ requested = <<1, 1, 2, 2, 2>>
    /\ Len(items) = 100

\* ------------------------------------------------------- overlapping runs
\* Another run of the program on the same repository, against the same
\* listing, that read the stored keys before this run's insert and inserts
\* after it: the rows this run found new are new to the other run as well.
overlapping_insert ==
    /\ lastInsert.step # "none"
    /\ lastInsert.rows # <<>>
    /\ LET k == KindOfStep(lastInsert.step)
           rows == lastInsert.rows
       IN /\ commits' = IF k = "commits" THEN InsertRows(commits, rows) ELSE commits
          /\ pull_requests' = IF k = "pull_requests" THEN InsertRows(pull_requests, rows)
                              ELSE pull_requests
          /\ issues' = IF k = "issues" THEN InsertRows(issues, rows) ELSE issues
          /\ reviews' = IF k = "reviews" THEN InsertRows(reviews, rows) ELSE reviews
    /\ lastInsert' = NoInsert
    /\ UNCHANGED <<now, repositories, remote, fetchVars, poolVars, mainVars, phase, localVars,
                   faults, ticks, syncStart, since, preClean, latestAt>>

\* An empty store and a remote that lists every record once, a few reviews at
\* most.
InitRace ==
    /\ commits = {}
    /\ pull_requests = {}
    /\ issues = {}
    /\ reviews = {}
    /\ remote \in UNION {RemoteOf(k) : k \in Kinds}
    /\ ListsOnce
    /\ Len(remote.reviews) <= MaxList
    /\ InitRest({<<"r1">>}, 0, 0, MaxRuns, 0)

NextRace == Step \/ overlapping_insert

\* main run again and again over one repository, other runs overlapping.
SpecRace == InitRace /\ [][NextRace]_vars

\* The rows of the kind before the cleanup of this run held an identity twice.
RacedBefore(k) == ~OnePerKey(k, OfRepo(preClean[k], repo_id))

\* C19: after the pre-pass cleanup of a run, every table, of every kind, holds
\* at most one row of the repository per logical identity, whatever rows of
\* one identity overlapping inserts of the run before had left.
C19_Healed ==
    (phase = "WindowComputation" /\ run = 2) =>
        \A k \in Kinds : OnePerKey(k, RowsOf(k, repo_id))

\* The same for the three kinds that have a cleanup.
C19_HealedCleaned ==
    (phase = "WindowComputation" /\ run = 2) =>
        \A k \in Cleaned : OnePerKey(k, RowsOf(k, repo_id))

\* The second run's cleanup met rows of one identity of a kind it cleans.
C19_RacedCleaned ==
    /\ phase = "WindowComputation"
    /\ run = 2
    /\ \E k \in Cleaned : RacedBefore(k)

\* The stored reviews of the repository that are one of the rows gathered in
\* this run's review phase.
AcceptedStored ==
    {r \in RowsOf("reviews", repo_id) :
        \E i \in 1..Len(all_review_data) :
            /\ all_review_data[i].pr_number = r.pr_number
            /\ all_review_data[i].review_id = r.review_id}

\* C21: within a run the commits table changes only in the step that follows
\* the end of every task of the commit pool, and the reviews table changes
\* only in the step that follows the last batch, with no pool open; no step
\* taken while a task of a pool waits or runs changes any table; so as long as
\* batches are being fetched the store holds none of the reviews gathered in
\* this run.
C21_NoWriteInFlight ==
    /\ [](phase = "FetchingReviews" /\ rv_pc \in {"batch", "workers"} =>
             AcceptedStored = {})
    /\ [][/\ (phase = "FetchingCommits" /\ commits' # commits) =>
                /\ executor.open
                /\ executor.pending = 0
                /\ executor.running = 0
                /\ ~executor'.open
          /\ (phase = "FetchingReviews" /\ reviews' # reviews) =>
                /\ ~executor.open
                /\ rv_pc = "batch"
                /\ batch_i > Len(all_recent_prs)
                /\ rv_pc' = "insert"
          /\ (executor.pending + executor.running > 0) => UNCHANGED storeVars]_vars

\* C21's case: the second repository of the run, eleven pull requests: a
\* worker of the third batch is in flight, the reviews of the ten pull
\* requests before are gathered, and none of them is stored yet, while the
\* store holds the first repository's reviews.
C21_Witness ==
    /\ repoIdx = 2
    /\ phase = "FetchingReviews"
    /\ rv_pc = "workers"
    /\ batch_i = 11
    /\ executor.running = 1
    /\ Len(all_review_data) = 10
    /\ RowsOf("reviews", repo_id) = {}
    /\ reviews # {}

\* The step in which a statement of store_repository_data raises.
Raises == phase # "Errored" /\ phase' = "Errored"

\* C22: the step in which a statement raises inserts nothing and takes out
\* nothing but what the failing statement itself had deleted before it raised
\* (a statement of the pruning or of the cleanup), and from any later phase it
\* leaves every table as it is; the handler changes no table; and the
\* repositories table never loses a row: the row of a repository whose run
\* got its id is stored in every phase and after an error.
C22_NoRollback ==
    /\ [](phase \in Range(PhaseOrder) =>
             \E r \in repositories : r.name = repos[repoIdx] /\ r.id = repo_id)
    /\ [][/\ repositories \subseteq repositories'
          /\ Raises =>
                /\ repositories' = repositories
                /\ commits' \subseteq commits
                /\ pull_requests' \subseteq pull_requests
                /\ issues' \subseteq issues
                /\ reviews' \subseteq reviews
                /\ (phase \notin {"Pruning", "Deduping"}) => UNCHANGED storeVars
          /\ (phase = "Errored") => UNCHANGED storeVars]_vars

\* C22's case: the first repository went through, the second one failed after
\* its pull request phase had stored a row, and its handler has run: the
\* repository row and the pull request row of the second repository are
\* stored.
C22_Witness ==
    /\ outcomes = <<"Done", "Errored">>
    /\ phase = "Idle"
    /\ \E r \in repositories : r.name = "r2" /\ r.id = repo_id
    /\ \E p \in pull_requests : p.repository_id = repo_id /\ p.created_at_internal = Now0

\* A step in which fetches gave up and nothing else failed.
OnlyGaveUp ==
    /\ gaveUp' > gaveUp
    /\ faults - faults' = gaveUp' - gaveUp

\* Where store_repository_data is after a step taken at the position given,
\* when nothing raises.
AfterPosition ==
    CASE phase = "FetchingCommits" /\ ~executor.open -> "FetchingCommits"
      [] phase = "FetchingCommits" /\ executor.open -> "FetchingPRs"
      [] phase = "FetchingPRs" /\ prStateIdx < Len(pr_states) -> "FetchingPRs"
      [] phase = "FetchingPRs" /\ prStateIdx >= Len(pr_states) -> "FetchingIssues"
      [] phase = "FetchingIssues" -> "FetchingReviews"
      [] phase = "FetchingReviews" -> "FetchingReviews"
      [] OTHER -> "none"

\* C23: a step in which a fetch gave up, and nothing else failed, does not
\* enter the error state: it goes where the step goes when every fetch
\* succeeds; a branch listing that gave up hands as many tasks to the pool as
\* it returned branches; and the steps that insert hand their rows, made from
\* what the fetch returned, to the store.
C23_GiveUpGoesOn ==
    [][OnlyGaveUp =>
          /\ phase' # "Errored"
          /\ phase' = AfterPosition
          /\ (phase = "FetchingCommits" /\ ~executor.open) =>
                /\ Len(branches') < Len(remote.branches)
                /\ executor'.open
                /\ executor'.pending = Len(branches')
          /\ (phase' # phase \/ phase = "FetchingPRs") =>
                /\ lastInsert'.step # "none"
                /\ \A i \in 1..Len(lastInsert'.rows) :
                      lastInsert'.rows[i].repository_id = repo_id]_vars

\* C23's case: a run that reached Done although its branch listing gave up:
\* no commit was fetched, the commit of the window that the remote holds is
\* not stored, and the pull request phase ran.
C23_Witness ==
    /\ phase = "Done"
    /\ gaveUp = 1
    /\ branches = <<>>
    /\ \E i \in 1..Len(remote.commits) : remote.commits[i].date = DateNew
    /\ \A r \in RowsOf("commits", repo_id) :
          ~(r.message = "m1" /\ r.committed_at = DateNew)
    /\ since.pull_requests.clock = now
    /\ since.commits.clock = now

\* The pull request numbers that both listings of the remote hold, each once.
InBothOnce ==
    {n \in Range(Numbers(remote.pulls_open)) \cap Range(Numbers(remote.pulls_closed)) :
        /\ NoRepeats(Numbers(remote.pulls_open))
        /\ NoRepeats(Numbers(remote.pulls_closed))}

\* The stored pull requests of the repository with number n.
PullRows(n) == {r \in RowsOf("pull_requests", repo_id) : r.number = n}

\* The record of number n in the open listing.
OpenRecord(n) ==
    remote.pulls_open[CHOOSE i \in 1..Len(remote.pulls_open) :
                          remote.pulls_open[i].number = n]

\* The pull request phase has just ended.
AfterPullPhase == phase = "FetchingIssues" /\ lastInsert.step = "closed"

====
